---- MODULE Spec2Model ----
(***************************************************************************)
(* Model of the channel-post distribution bot (src/bot.py, src/database.py,*)
(* src/config.py).                                                         *)
(*                                                                         *)
(* The bot is a python-telegram-bot Application.  setup_handlers registers *)
(* every handler in one group, so each update is given to the FIRST        *)
(* handler that accepts it, in registration order: the command handlers,   *)
(* then the global CallbackQueryHandler(callback_handler), then the /post  *)
(* ConversationHandler.  Updates are processed one at a time (the          *)
(* Application is built without concurrent updates), so a handler that is  *)
(* suspended in the send loop keeps later updates waiting in the update    *)
(* queue.  context.user_data is one dictionary per user, shared by all the *)
(* chats of that user; the conversation state is kept per (chat, user).    *)
(***************************************************************************)
EXTENDS Integers, Sequences, FiniteSets, TLC

\* ------------------------------------------------------------------ bounds

\* Longest posts_received list explored (the code sets no limit).
MaxPosts == 3
\* Most updates that wait in the update queue while a dispatch pass runs.
MaxQueue == 1
\* Most records explored in db.scheduled_posts.
MaxScheduled == 2

\* ---------------------------------------------------------------- universes

OWNER_ID == "owner"
Users == {"owner", "u1"}
Chats == {"A", "B"}
ChannelIds == {"c1", "c2"}

\* Length limits send_post_to_channel applies to what it transmits.
CaptionLimit == 1024
TextLimit == 4096

\* Shapes of the non-command messages a user can send to the bot: which
\* attachment the message has and how long its text or caption is.
Shapes ==
    ("text" :> [media |-> "text", length |-> 1])
    @@ ("photo" :> [media |-> "photo", length |-> 0])
    @@ ("sticker" :> [media |-> "sticker", length |-> 0])
    @@ ("long_text" :> [media |-> "text", length |-> 5000])
    @@ ("long_photo" :> [media |-> "photo", length |-> 2000])
    @@ ("video" :> [media |-> "video", length |-> 1025])
    @@ ("document" :> [media |-> "document", length |-> 1024])
    @@ ("voice" :> [media |-> "voice", length |-> 10])

MessageShapes == DOMAIN Shapes

\* The parts of the environment explored together.  Every run takes one of
\* them: who talks to the bot, in which chats, which channels get registered,
\* which messages are sent, and whether the schedule buttons and the sudo
\* commands are used.
Scopes ==
    { [name |-> "chats", users |-> {"owner"}, chats |-> {"A", "B"}, ids |-> {"c1"},
       shapes |-> {"text", "sticker"}, schedule |-> FALSE, sudo |-> FALSE, list |-> FALSE],
      [name |-> "channels", users |-> {"owner"}, chats |-> {"A"}, ids |-> {"c1", "c2"},
       shapes |-> {"text", "photo", "sticker"}, schedule |-> TRUE, sudo |-> FALSE,
       list |-> FALSE],
      [name |-> "users", users |-> {"owner", "u1"}, chats |-> {"A"}, ids |-> {"c1"},
       shapes |-> {"text"}, schedule |-> FALSE, sudo |-> TRUE, list |-> FALSE],
      [name |-> "directory", users |-> {"owner", "u1"}, chats |-> {"A"}, ids |-> {"c1", "c2"},
       shapes |-> {"text"}, schedule |-> FALSE, sudo |-> FALSE, list |-> TRUE],
      [name |-> "content", users |-> {"owner"}, chats |-> {"A"}, ids |-> {"c1", "c2"},
       shapes |-> {"long_text", "long_photo", "video", "document", "voice"},
       schedule |-> FALSE, sudo |-> FALSE, list |-> FALSE] }

\* The scopes in which the progress of the dispatch pass is checked: those
\* that never write to db.scheduled_posts, which the pass does not read.
PassScopes ==
    { sc \in Scopes : ~sc.schedule /\ ~sc.list }
    \cup { [name |-> "dispatch", users |-> {"owner"}, chats |-> {"A"}, ids |-> {"c1", "c2"},
            shapes |-> {"text", "sticker"}, schedule |-> FALSE, sudo |-> FALSE,
            list |-> FALSE] }

\* callback_data of the inline buttons the bot creates.
PostButtons == {"send_now", "schedule", "cancel_post"}
ScheduleButtons == {"schedule_1", "send_now", "cancel_post"}

\* The keyboards list_channels creates, by the channel ids they offer to
\* remove, and the callback_data of their buttons ("remove_" + channel_id).
ListIds ==
    ("list_c1" :> {"c1"}) @@ ("list_c2" :> {"c2"}) @@ ("list_c1_c2" :> {"c1", "c2"})
RemoveTarget == ("remove_c1" :> "c1") @@ ("remove_c2" :> "c2")

\* Conversation states (ConversationHandler.END is "END").
END == "END"
WAITING_FOR_POSTS == "WAITING_FOR_POSTS"
WAITING_FOR_SCHEDULE == "WAITING_FOR_SCHEDULE"

VARIABLES
    scope,         \* the part of the environment this run explores
    channels,      \* db.channels, in get_all_channels() order (newest first)
    sudo_users,    \* db.sudo_users, the set of stored user ids
    user_data,     \* context.user_data of every user
    conv,          \* ConversationHandler state of every (chat, user)
    keyboards,     \* kinds of inline keyboard still shown in every chat
    queue,         \* updates received while a handler is suspended, each with
                   \* the user whose dispatch pass was running when it came
    scheduled_posts, \* db.scheduled_posts, in insertion order
    pass,          \* the running send_posts_now call (its local variables)
    reply,         \* the bot's answer to the update it handled last
    notice         \* per user: how the bot said the stored session ended

vars == <<scope, channels, sudo_users, scheduled_posts, user_data, conv, keyboards, queue, pass, reply,
          notice>>

\* ------------------------------------------------------------------ helpers

Min(a, b) == IF a < b THEN a ELSE b

SeqToSet(s) == {s[i] : i \in 1..Len(s)}

EmptyData == [has |-> FALSE, channels |-> <<>>, posts_received |-> <<>>, channel_count |-> 0]

NoPass == [active |-> FALSE, user |-> "owner", chat |-> "A", channels |-> <<>>,
           posts |-> <<>>, i |-> 0, success_count |-> 0, failed_channels |-> <<>>,
           in_flight |-> {}, log |-> <<>>]

\* An answer of the bot: who it is for and which text it is.  The posting
\* report also carries its numbers: "Successfully sent: sent/total" and the
\* failed channels.
Say(u, t) == [to |-> u, text |-> t, sent |-> 0, total |-> 0, failed |-> <<>>]

NoReply == Say("owner", "none")

\* db.is_sudo_user(user_id) or user_id == Config.OWNER_ID
IsAuthorized(u) == u \in sudo_users \/ u = OWNER_ID

\* post_data built by receive_posts from the incoming message.
\* text is the length of message.text or message.caption; a message with
\* another attachment than a photo, a video or a document, or with none and no
\* text, leaves media_type and file_id None.
MakePost(m) ==
    CASE Shapes[m].media \in {"photo", "video", "document"} ->
             [media_type |-> Shapes[m].media, file_id |-> TRUE, text |-> Shapes[m].length]
      [] Shapes[m].media = "text" /\ Shapes[m].length > 0 ->
             [media_type |-> "text", file_id |-> FALSE, text |-> Shapes[m].length]
      [] OTHER -> [media_type |-> "none", file_id |-> FALSE, text |-> Shapes[m].length]

\* The Bot API call send_post_to_channel chooses for a post ("none": it logs
\* "No content to send" and returns False without calling the API).
ApiCall(post) ==
    IF post.media_type = "photo" /\ post.file_id THEN "send_photo"
    ELSE IF post.media_type = "video" /\ post.file_id THEN "send_video"
    ELSE IF post.media_type = "document" /\ post.file_id THEN "send_document"
    ELSE IF post.text > 0 THEN "send_message"
    ELSE "none"

\* text[:limit], on the length of the text.
Slice(length, limit) == IF length > limit THEN limit ELSE length

\* A transmission that passes the whole text on.
ApiTextWhole(post) == IF ApiCall(post) = "none" THEN 0 ELSE post.text

\* The length of the caption or text send_post_to_channel passes to the Bot
\* API call it makes (0: caption=None, or no call).
ApiText(post) ==
    IF ApiCall(post) \in {"send_photo", "send_video", "send_document"}
    THEN Slice(post.text, CaptionLimit)
    ELSE IF ApiCall(post) = "send_message" THEN Slice(post.text, TextLimit)
    ELSE 0

\* A zip that walks the channel list from its other end.
PairingsReversed(chs, posts) ==
    [k \in 1..Min(Len(chs), Len(posts)) |->
        [channel |-> chs[Min(Len(chs), Len(posts)) - k + 1], post |-> posts[k]]]

\* zip(channels, posts): the pairings the send loop iterates over.
Pairings(chs, posts) ==
    [k \in 1..Min(Len(chs), Len(posts)) |-> [channel |-> chs[k], post |-> posts[k]]]

\* posts_received.append(post_data)
AppendPost(posts, post) == Append(posts, post)

\* A document of db.channels; added_date is its place in get_all_channels().
Channel(id, by) == [channel_id |-> id, added_by |-> by]

\* Database.get_channel_by_id(channel_id) finds a document.
get_channel_by_id(id) == \E k \in 1..Len(channels) : channels[k].channel_id = id

\* Database.remove_channel: delete_one on the channel id.
remove_channel(chs, id) == SelectSeq(chs, LAMBDA ch : ch.channel_id # id)

InitIn(scopes) ==
    /\ scope \in scopes
    /\ channels = <<>>
    /\ sudo_users = {}
    /\ scheduled_posts = <<>>
    /\ user_data = [u \in Users |-> EmptyData]
    /\ conv = [k \in Chats \X Users |-> END]
    /\ keyboards = [c \in Chats |-> {}]
    /\ queue = <<>>
    /\ pass = NoPass
    /\ reply = NoReply
    /\ notice = [u \in Users |-> "none"]

Init == InitIn(Scopes)

\* ------------------------------------------------------- command handlers

\* A registration that replaces the document of a channel id that is present.
add_channel_upsert(u, c, id, member, insert, w) ==
    /\ UNCHANGED <<sudo_users, scheduled_posts, user_data, conv, keyboards, pass, notice>>
    /\ IF ~IsAuthorized(u)
       THEN /\ reply' = Say(u, "unauthorized")
            /\ UNCHANGED channels
       ELSE IF member = "error"
       THEN /\ reply' = Say(u, "add_failed")
            /\ UNCHANGED channels
       ELSE IF member # "administrator"
       THEN /\ reply' = Say(u, "not_admin")
            /\ UNCHANGED channels
       ELSE IF get_channel_by_id(id)
       THEN /\ reply' = Say(u, "already_added")
            /\ channels' = <<Channel(id, u)>> \o remove_channel(channels, id)
       ELSE /\ channels' = CASE insert = "stored" -> <<Channel(id, u)>> \o channels
                              [] insert = "raced" -> <<Channel(id, w)>> \o channels
                              [] OTHER -> channels
            /\ reply' = Say(u, "channel_added")

\* TelegramBot.add_channel with Database.add_channel.  member is what
\* bot.get_chat_member reports ("error": the call raises TelegramError).
\* insert is what insert_one does: "stored"; "error" (it raises, and
\* Database.add_channel logs the error and returns None); "raced" (another
\* registration of the same id, by writer w through another connection to the
\* same database, inserted its document after the get_channel_by_id of line
\* 175: the unique index on channel_id makes insert_one raise, and
\* Database.add_channel logs the error and returns None).  The handler does
\* not look at what Database.add_channel returns.
add_channel(u, c, id, member, insert, w) ==
    /\ UNCHANGED <<sudo_users, scheduled_posts, user_data, conv, keyboards, pass, notice>>
    /\ IF ~IsAuthorized(u)
       THEN /\ reply' = Say(u, "unauthorized")
            /\ UNCHANGED channels
       ELSE IF member = "error"
       THEN /\ reply' = Say(u, "add_failed")
            /\ UNCHANGED channels
       ELSE IF member # "administrator"
       THEN /\ reply' = Say(u, "not_admin")
            /\ UNCHANGED channels
       ELSE IF get_channel_by_id(id)
       THEN /\ reply' = Say(u, "already_added")
            /\ UNCHANGED channels
       ELSE /\ channels' = CASE insert = "stored" -> <<Channel(id, u)>> \o channels
                              [] insert = "raced" -> <<Channel(id, w)>> \o channels
                              [] OTHER -> channels
            /\ reply' = Say(u, "channel_added")

\* TelegramBot.list_channels: the list, with one remove button per channel.
list_channels(u, c) ==
    /\ UNCHANGED <<channels, sudo_users, scheduled_posts, user_data, conv, pass, notice>>
    /\ IF ~IsAuthorized(u)
       THEN /\ reply' = Say(u, "unauthorized")
            /\ UNCHANGED keyboards
       ELSE IF channels = <<>>
       THEN /\ reply' = Say(u, "no_channels_yet")
            /\ UNCHANGED keyboards
       ELSE LET ids == {channels[k].channel_id : k \in 1..Len(channels)}
                kb == CHOOSE l \in DOMAIN ListIds : ListIds[l] = ids
            IN  /\ keyboards' = [keyboards EXCEPT ![c] = @ \cup {kb}]
                /\ reply' = Say(u, "channel_list")

\* An /addsudo that any authorized user may use.
add_sudo_authorized(u, c, target) ==
    /\ UNCHANGED <<channels, scheduled_posts, user_data, conv, keyboards, pass, notice>>
    /\ IF ~IsAuthorized(u)
       THEN /\ reply' = Say(u, "owner_only")
            /\ UNCHANGED sudo_users
       ELSE IF target \in sudo_users
       THEN /\ reply' = Say(u, "already_sudo")
            /\ UNCHANGED sudo_users
       ELSE /\ sudo_users' = sudo_users \cup {target}
            /\ reply' = Say(u, "sudo_added")

\* TelegramBot.add_sudo with Database.add_sudo_user.
add_sudo(u, c, target) ==
    /\ UNCHANGED <<channels, scheduled_posts, user_data, conv, keyboards, pass, notice>>
    /\ IF u # OWNER_ID
       THEN /\ reply' = Say(u, "owner_only")
            /\ UNCHANGED sudo_users
       ELSE IF target \in sudo_users
       THEN /\ reply' = Say(u, "already_sudo")
            /\ UNCHANGED sudo_users
       ELSE /\ sudo_users' = sudo_users \cup {target}
            /\ reply' = Say(u, "sudo_added")

\* TelegramBot.remove_sudo with Database.remove_sudo_user.
remove_sudo(u, c, target) ==
    /\ UNCHANGED <<channels, scheduled_posts, user_data, conv, keyboards, pass, notice>>
    /\ IF u # OWNER_ID
       THEN /\ reply' = Say(u, "owner_only")
            /\ UNCHANGED sudo_users
       ELSE IF target \notin sudo_users
       THEN /\ reply' = Say(u, "not_sudo")
            /\ UNCHANGED sudo_users
       ELSE /\ sudo_users' = sudo_users \ {target}
            /\ reply' = Say(u, "sudo_removed")

\* ------------------------------------------------- the /post conversation

\* A /post that does not look at whether any channel is registered.
post_command_unchecked(u, c) ==
    /\ UNCHANGED <<channels, sudo_users, scheduled_posts, keyboards, pass>>
    /\ IF ~IsAuthorized(u)
       THEN /\ reply' = Say(u, "unauthorized")
            /\ conv' = [conv EXCEPT ![<<c, u>>] = END]
            /\ UNCHANGED <<user_data, notice>>
       ELSE /\ user_data' = [user_data EXCEPT ![u] =
                   [has |-> TRUE, channels |-> channels, posts_received |-> <<>>,
                    channel_count |-> Len(channels)]]
            /\ conv' = [conv EXCEPT ![<<c, u>>] = WAITING_FOR_POSTS]
            /\ notice' = [notice EXCEPT ![u] = "none"]
            /\ reply' = Say(u, "posting_setup")

\* TelegramBot.post_command: the entry point of the conversation.
post_command(u, c) ==
    /\ UNCHANGED <<channels, sudo_users, scheduled_posts, keyboards, pass>>
    /\ IF ~IsAuthorized(u)
       THEN /\ reply' = Say(u, "unauthorized")
            /\ conv' = [conv EXCEPT ![<<c, u>>] = END]
            /\ UNCHANGED <<user_data, notice>>
       ELSE IF channels = <<>>
       THEN /\ reply' = Say(u, "no_channels")
            /\ conv' = [conv EXCEPT ![<<c, u>>] = END]
            /\ UNCHANGED <<user_data, notice>>
       ELSE /\ user_data' = [user_data EXCEPT ![u] =
                   [has |-> TRUE, channels |-> channels, posts_received |-> <<>>,
                    channel_count |-> Len(channels)]]
            /\ conv' = [conv EXCEPT ![<<c, u>>] = WAITING_FOR_POSTS]
            /\ notice' = [notice EXCEPT ![u] = "none"]
            /\ reply' = Say(u, "posting_setup")

\* A comparison that finds the session ready one post early.
CollectionOutcomeEarly(received, required) ==
    IF received + 1 < required THEN "need_more"
    ELSE IF received + 1 = required THEN "ready"
    ELSE "overflow"

\* The branch receive_posts takes once the post is stored.
CollectionOutcome(received, required) ==
    IF received < required THEN "need_more"
    ELSE IF received = required THEN "ready"
    ELSE "overflow"

\* TelegramBot.receive_posts: a non-command message in WAITING_FOR_POSTS.
\* The answers "Post {received} received! Need {required - received} more" and
\* "All {required} posts received!" carry received (sent) and required (total).
receive_posts(u, c, m) ==
    /\ UNCHANGED <<channels, sudo_users, scheduled_posts, pass, notice>>
    /\ IF ~user_data[u].has
       THEN /\ reply' = Say(u, "session_expired")
            /\ conv' = [conv EXCEPT ![<<c, u>>] = END]
            /\ UNCHANGED <<user_data, keyboards>>
       ELSE LET posts == AppendPost(user_data[u].posts_received, MakePost(m))
                outcome == CollectionOutcome(Len(posts), user_data[u].channel_count)
            IN  /\ Len(user_data[u].posts_received) < MaxPosts
                /\ user_data' = [user_data EXCEPT ![u].posts_received = posts]
                /\ reply' = IF outcome = "overflow" THEN Say(u, outcome)
                            ELSE [Say(u, outcome) EXCEPT
                                     !.sent = Len(posts),
                                     !.total = user_data[u].channel_count]
                /\ conv' = [conv EXCEPT ![<<c, u>>] =
                       IF outcome = "ready" THEN WAITING_FOR_SCHEDULE
                       ELSE WAITING_FOR_POSTS]
                /\ keyboards' = [keyboards EXCEPT ![c] =
                       IF outcome = "ready" THEN @ \cup {"choice"} ELSE @]

\* TelegramBot.cancel_conversation: the /cancel fallback of the conversation.
cancel_conversation(u, c) ==
    /\ UNCHANGED <<channels, sudo_users, scheduled_posts, keyboards, pass>>
    /\ user_data' = [user_data EXCEPT ![u] = EmptyData]
    /\ conv' = [conv EXCEPT ![<<c, u>>] = END]
    /\ notice' = [notice EXCEPT ![u] = IF user_data[u].has THEN "cancelled" ELSE @]
    /\ reply' = Say(u, "operation_cancelled")

\* ------------------------------------------------------ callback queries

\* The first statements of send_posts_now: the keyboard message is edited,
\* the session is read from user_data (KeyError without one: the error
\* handler answers) and the loop variables are set.
send_posts_now(u, c, kb) ==
    /\ UNCHANGED <<channels, sudo_users, scheduled_posts, user_data, conv, notice>>
    /\ keyboards' = [keyboards EXCEPT ![c] = @ \ {kb}]
    /\ IF ~user_data[u].has
       THEN /\ reply' = Say(u, "error")
            /\ UNCHANGED pass
       ELSE /\ pass' = [active |-> TRUE, user |-> u, chat |-> c,
                        channels |-> user_data[u].channels,
                        posts |-> user_data[u].posts_received,
                        i |-> 0, success_count |-> 0, failed_channels |-> <<>>,
                        in_flight |-> {}, log |-> <<>>]
            /\ reply' = Say(u, "sending")

\* TelegramBot.ask_schedule_time: the message gets the schedule keyboard.
ask_schedule_time(u, c, kb) ==
    /\ UNCHANGED <<channels, sudo_users, scheduled_posts, user_data, conv, pass, notice>>
    /\ keyboards' = [keyboards EXCEPT ![c] = (@ \ {kb}) \cup {"sched"}]
    /\ reply' = Say(u, "ask_schedule")

\* The cancel_post branch of handle_schedule_choice: the message is edited
\* and nothing else is done (user_data is left as it is).
cancel_post(u, c, kb) ==
    /\ UNCHANGED <<channels, sudo_users, scheduled_posts, user_data, conv, pass>>
    /\ keyboards' = [keyboards EXCEPT ![c] = @ \ {kb}]
    /\ notice' = [notice EXCEPT ![u] = IF user_data[u].has THEN "cancelled" ELSE @]
    /\ reply' = Say(u, "posting_cancelled")

\* A scheduling that also sends the posts at once.
handle_scheduled_time_send(u, c, kb) ==
    LET pairs == Pairings(user_data[u].channels, user_data[u].posts_received)
        records == [k \in 1..Len(pairs) |->
                       [channel_id |-> pairs[k].channel.channel_id, post_data |-> pairs[k].post,
                        hours |-> 1, sent |-> FALSE, added_by |-> u]]
    IN  /\ Len(scheduled_posts) + Len(records) <= MaxScheduled
        /\ scheduled_posts' = scheduled_posts \o records
        /\ keyboards' = [keyboards EXCEPT ![c] = @ \ {kb}]
        /\ user_data' = [user_data EXCEPT ![u] = EmptyData]
        /\ notice' = [notice EXCEPT ![u] = IF user_data[u].has THEN "scheduled" ELSE @]
        /\ reply' = Say(u, "scheduled")
        /\ pass' = [active |-> TRUE, user |-> u, chat |-> c,
                    channels |-> user_data[u].channels,
                    posts |-> user_data[u].posts_received,
                    i |-> 0, success_count |-> 0, failed_channels |-> <<>>,
                    in_flight |-> {}, log |-> <<>>]
        /\ UNCHANGED <<channels, sudo_users, conv>>

\* TelegramBot.handle_scheduled_time with Database.add_scheduled_post: one
\* record per pairing of zip(channels, posts), scheduled hours from now (the
\* number in the callback data), then user_data.clear().
handle_scheduled_time(u, c, kb) ==
    LET pairs == Pairings(user_data[u].channels, user_data[u].posts_received)
        records == [k \in 1..Len(pairs) |->
                       [channel_id |-> pairs[k].channel.channel_id, post_data |-> pairs[k].post,
                        hours |-> 1, sent |-> FALSE, added_by |-> u]]
    IN  /\ Len(scheduled_posts) + Len(records) <= MaxScheduled
        /\ scheduled_posts' = scheduled_posts \o records
        /\ keyboards' = [keyboards EXCEPT ![c] = @ \ {kb}]
        /\ user_data' = [user_data EXCEPT ![u] = EmptyData]
        /\ notice' = [notice EXCEPT ![u] = IF user_data[u].has THEN "scheduled" ELSE @]
        /\ reply' = Say(u, "scheduled")
        /\ UNCHANGED <<channels, sudo_users, conv, pass>>

\* TelegramBot.handle_schedule_choice, reached through callback_handler.
handle_schedule_choice(u, c, data, kb) ==
    CASE data = "send_now" -> send_posts_now(u, c, kb)
      [] data = "schedule" -> ask_schedule_time(u, c, kb)
      [] data = "cancel_post" -> cancel_post(u, c, kb)

\* A removal that does not look the channel up before it deletes and reports.
handle_channel_removal_unchecked(u, c, data, kb, deleted) ==
    LET id == RemoveTarget[data]
    IN  /\ UNCHANGED <<sudo_users, scheduled_posts, user_data, conv, pass, notice>>
        /\ IF ~IsAuthorized(u)
           THEN /\ reply' = Say(u, "not_authorized")
                /\ UNCHANGED <<channels, keyboards>>
           ELSE /\ channels' = IF deleted THEN remove_channel(channels, id) ELSE channels
                /\ keyboards' = [keyboards EXCEPT ![c] = @ \ {kb}]
                /\ reply' = Say(u, "removed")

\* A removal that also takes the channel out of the stored sessions.
handle_channel_removal_cascade(u, c, data, kb, deleted) ==
    LET id == RemoveTarget[data]
    IN  /\ UNCHANGED <<sudo_users, scheduled_posts, conv, pass, notice>>
        /\ IF ~IsAuthorized(u)
           THEN /\ reply' = Say(u, "not_authorized")
                /\ UNCHANGED <<channels, keyboards, user_data>>
           ELSE IF ~get_channel_by_id(id)
           THEN /\ reply' = Say(u, "not_found")
                /\ UNCHANGED <<channels, keyboards, user_data>>
           ELSE /\ channels' = IF deleted THEN remove_channel(channels, id) ELSE channels
                /\ user_data' = [v \in Users |->
                       [user_data[v] EXCEPT !.channels = remove_channel(@, id)]]
                /\ keyboards' = [keyboards EXCEPT ![c] = @ \ {kb}]
                /\ reply' = Say(u, "removed")

\* TelegramBot.handle_channel_removal with Database.remove_channel.  deleted
\* is whether delete_one succeeded (Database.remove_channel logs the error and
\* returns None, and the handler does not look at it).  The message loses its
\* buttons only when the removal is reported.
handle_channel_removal(u, c, data, kb, deleted) ==
    LET id == RemoveTarget[data]
    IN  /\ UNCHANGED <<sudo_users, scheduled_posts, user_data, conv, pass, notice>>
        /\ IF ~IsAuthorized(u)
           THEN /\ reply' = Say(u, "not_authorized")
                /\ UNCHANGED <<channels, keyboards>>
           ELSE IF ~get_channel_by_id(id)
           THEN /\ reply' = Say(u, "not_found")
                /\ UNCHANGED <<channels, keyboards>>
           ELSE /\ channels' = IF deleted THEN remove_channel(channels, id) ELSE channels
                /\ keyboards' = [keyboards EXCEPT ![c] = @ \ {kb}]
                /\ reply' = Say(u, "removed")

\* TelegramBot.callback_handler: the global CallbackQueryHandler, registered
\* before the conversation, so it takes every remove_ / send_now / schedule /
\* cancel_post press whatever the conversation state is.
callback_handler(u, c, data, kb) ==
    IF data \in DOMAIN RemoveTarget
    THEN \E deleted \in BOOLEAN : handle_channel_removal(u, c, data, kb, deleted)
    ELSE IF data = "schedule_1"
    THEN handle_scheduled_time(u, c, kb)
    ELSE handle_schedule_choice(u, c, data, kb)

\* ------------------------------------------------------ the dispatch pass

\* TelegramBot.send_post_to_channel: True when a Bot API call was made and
\* did not raise.  ok is the outcome of the call.
send_post_to_channel(post, ok) == ApiCall(post) # "none" /\ ok

\* A loop that starts the Bot API calls of all its pairings together.
send_call_all ==
    LET pairs == Pairings(pass.channels, pass.posts)
        k == pass.i + 1
    IN  /\ pass.active
        /\ pass.i < Len(pairs)
        /\ ApiCall(pairs[k].post) # "none"
        /\ k \notin pass.in_flight
        /\ pass' = [pass EXCEPT
              !.in_flight = {j \in k..Len(pairs) : ApiCall(pairs[j].post) # "none"}]
        /\ UNCHANGED <<scope, channels, sudo_users, scheduled_posts, user_data, conv,
                       keyboards, queue, reply, notice>>

\* send_post_to_channel starts the Bot API call of pairing i+1 and awaits it:
\* the call is in flight until it returns or raises.
send_call ==
    LET pairs == Pairings(pass.channels, pass.posts)
        k == pass.i + 1
    IN  /\ pass.active
        /\ pass.i < Len(pairs)
        /\ ApiCall(pairs[k].post) # "none"
        /\ k \notin pass.in_flight
        /\ pass' = [pass EXCEPT !.in_flight = @ \cup {k}]
        /\ UNCHANGED <<scope, channels, sudo_users, scheduled_posts, user_data, conv,
                       keyboards, queue, reply, notice>>

\* A loop in which a failed delivery ends the pass (the failure leaves the loop).
send_step_abort(ok) ==
    LET pairs == Pairings(pass.channels, pass.posts)
        k == pass.i + 1
        success == send_post_to_channel(pairs[k].post, ok)
    IN  /\ pass.active
        /\ pass.i < Len(pairs)
        /\ ApiCall(pairs[k].post) = "none" => ok
        /\ ApiCall(pairs[k].post) # "none" => k \in pass.in_flight
        /\ pass' = [pass EXCEPT
              !.i = IF success THEN k ELSE Len(pairs),
              !.in_flight = @ \ {k},
              !.success_count = IF success THEN @ + 1 ELSE @,
              !.failed_channels = IF success THEN @ ELSE Append(@, pairs[k].channel),
              !.log = Append(@, [channel |-> pairs[k].channel, post |-> pairs[k].post,
                                 call |-> ApiCall(pairs[k].post),
                                 text |-> ApiText(pairs[k].post), ok |-> success])]
        /\ UNCHANGED <<scope, channels, sudo_users, scheduled_posts, user_data, conv,
                       keyboards, queue, reply, notice>>

\* A loop in which a failed delivery escapes send_posts_now: the error handler
\* answers and no report is made.
send_step_raise(ok) ==
    LET pairs == Pairings(pass.channels, pass.posts)
        k == pass.i + 1
        success == send_post_to_channel(pairs[k].post, ok)
    IN  /\ pass.active
        /\ pass.i < Len(pairs)
        /\ ApiCall(pairs[k].post) = "none" => ok
        /\ ApiCall(pairs[k].post) # "none" => k \in pass.in_flight
        /\ IF success
           THEN /\ pass' = [pass EXCEPT
                      !.i = k,
                      !.in_flight = @ \ {k},
                      !.success_count = @ + 1,
                      !.log = Append(@, [channel |-> pairs[k].channel,
                                         post |-> pairs[k].post,
                                         call |-> ApiCall(pairs[k].post),
                                         text |-> ApiText(pairs[k].post), ok |-> TRUE])]
                /\ UNCHANGED reply
           ELSE /\ pass' = NoPass
                /\ reply' = Say(pass.user, "error")
        /\ UNCHANGED <<scope, channels, sudo_users, scheduled_posts, user_data, conv,
                       keyboards, queue, notice>>

\* The rest of one iteration of the send loop of send_posts_now, on pairing
\* i+1: the Bot API call returns or raises (or none was made), then the
\* success count or the failed list.  ok is the outcome of the call (False
\* when it raises).
send_step(ok) ==
    LET pairs == Pairings(pass.channels, pass.posts)
        k == pass.i + 1
        success == send_post_to_channel(pairs[k].post, ok)
    IN  /\ pass.active
        /\ pass.i < Len(pairs)
        /\ ApiCall(pairs[k].post) = "none" => ok
        /\ ApiCall(pairs[k].post) # "none" => k \in pass.in_flight
        /\ pass' = [pass EXCEPT
              !.i = k,
              !.in_flight = @ \ {k},
              !.success_count = IF success THEN @ + 1 ELSE @,
              !.failed_channels = IF success THEN @ ELSE Append(@, pairs[k].channel),
              !.log = Append(@, [channel |-> pairs[k].channel, post |-> pairs[k].post,
                                 call |-> ApiCall(pairs[k].post),
                                 text |-> ApiText(pairs[k].post), ok |-> success])]
        /\ UNCHANGED <<scope, channels, sudo_users, scheduled_posts, user_data, conv,
                       keyboards, queue, reply, notice>>

\* A report that leaves the session in user_data.
send_report_keep ==
    /\ pass.active
    /\ pass.i = Len(Pairings(pass.channels, pass.posts))
    /\ notice' = [notice EXCEPT ![pass.user] = "completed"]
    /\ reply' = [to |-> pass.user, text |-> "report", sent |-> pass.success_count,
                 total |-> Len(pass.channels), failed |-> pass.failed_channels]
    /\ pass' = NoPass
    /\ UNCHANGED <<scope, channels, sudo_users, scheduled_posts, user_data, conv, keyboards,
                   queue>>

\* A report after which every user's user_data is cleared.
send_report_all ==
    /\ pass.active
    /\ pass.i = Len(Pairings(pass.channels, pass.posts))
    /\ user_data' = [u \in Users |-> EmptyData]
    /\ notice' = [notice EXCEPT ![pass.user] = "completed"]
    /\ reply' = [to |-> pass.user, text |-> "report", sent |-> pass.success_count,
                 total |-> Len(pass.channels), failed |-> pass.failed_channels]
    /\ pass' = NoPass
    /\ UNCHANGED <<scope, channels, sudo_users, scheduled_posts, conv, keyboards, queue>>

\* The end of send_posts_now: the report, user_data.clear().
send_report ==
    /\ pass.active
    /\ pass.i = Len(Pairings(pass.channels, pass.posts))
    /\ user_data' = [user_data EXCEPT ![pass.user] = EmptyData]
    /\ notice' = [notice EXCEPT ![pass.user] = "completed"]
    /\ reply' = [to |-> pass.user, text |-> "report", sent |-> pass.success_count,
                 total |-> Len(pass.channels), failed |-> pass.failed_channels]
    /\ pass' = NoPass
    /\ UNCHANGED <<scope, channels, sudo_users, scheduled_posts, conv, keyboards, queue>>

\* ------------------------------------------------------ update dispatch

Buttons(kb) ==
    IF kb = "choice" THEN PostButtons
    ELSE IF kb = "sched" THEN ScheduleButtons
    ELSE {b \in DOMAIN RemoveTarget : RemoveTarget[b] \in ListIds[kb]}

\* The updates users can send.  A button can be pressed only while a message
\* showing it exists in the chat; any member of the chat can press it.
Updates ==
    [type : {"post", "cancel"}, user : scope.users, chat : scope.chats, arg : {"-"},
     kb : {"-"}]
    \cup [type : {"message"}, user : scope.users, chat : scope.chats, arg : scope.shapes,
          kb : {"-"}]
    \cup [type : {"add"}, user : scope.users, chat : scope.chats, arg : scope.ids, kb : {"-"}]
    \cup {upd \in [type : {"addsudo", "removesudo"}, user : scope.users,
                   chat : scope.chats, arg : scope.users, kb : {"-"}] : scope.sudo}
    \cup {upd \in [type : {"callback"}, user : scope.users, chat : scope.chats,
                   arg : PostButtons \cup ScheduleButtons, kb : {"choice", "sched"}] :
             /\ upd.arg \in Buttons(upd.kb)
             /\ upd.arg \in {"schedule", "schedule_1"} => scope.schedule}
    \cup {upd \in [type : {"list"}, user : scope.users, chat : scope.chats, arg : {"-"},
                   kb : {"-"}] : scope.list}
    \cup {upd \in [type : {"callback"}, user : scope.users, chat : scope.chats,
                   arg : DOMAIN RemoveTarget, kb : DOMAIN ListIds] :
             /\ upd.arg \in Buttons(upd.kb)
             /\ ListIds[upd.kb] \subseteq scope.ids
             /\ scope.list}

CanSend(upd) == upd.type = "callback" => upd.kb \in keyboards[upd.chat]

\* No handler accepts the update: the Application drops it.
ignored == UNCHANGED <<channels, sudo_users, scheduled_posts, user_data, conv, keyboards, pass, reply, notice>>

\* Application.process_update over the handlers of setup_handlers: the first
\* handler that accepts the update runs.  A ConversationHandler in state END
\* offers its entry point (/post); in another state it offers that state's
\* handlers and the fallback (/cancel), and nothing else.
process_update(upd) ==
    LET u == upd.user
        c == upd.chat
        state == conv[<<c, u>>]
    IN  CASE upd.type = "add" ->
               \E member \in {"administrator", "member", "error"},
                  insert \in {"stored", "error", "raced"},
                  w \in {v \in scope.users : IsAuthorized(v)} :
                   add_channel(u, c, upd.arg, member, insert, w)
          [] upd.type = "list" -> list_channels(u, c)
          [] upd.type = "addsudo" -> add_sudo(u, c, upd.arg)
          [] upd.type = "removesudo" -> remove_sudo(u, c, upd.arg)
          [] upd.type = "callback" -> callback_handler(u, c, upd.arg, upd.kb)
          [] upd.type = "post" ->
               IF state = END THEN post_command(u, c) ELSE ignored
          [] upd.type = "message" ->
               IF state = WAITING_FOR_POSTS THEN receive_posts(u, c, upd.arg) ELSE ignored
          [] upd.type = "cancel" ->
               IF state # END THEN cancel_conversation(u, c) ELSE ignored

\* An update arrives while no handler is running and is handled at once.
Arrive ==
    \E upd \in Updates :
        /\ ~pass.active
        /\ queue = <<>>
        /\ CanSend(upd)
        /\ process_update(upd)
        /\ UNCHANGED <<scope, queue>>

\* A cancel request: the /cancel command or a press of a Cancel button.
IsCancel(upd) == upd.type = "cancel" \/ (upd.type = "callback" /\ upd.arg = "cancel_post")

\* An update arrives while send_posts_now is suspended in its loop: it waits.
\* No handler runs before the loop ends, so an update sent during the pass is
\* handled exactly as the same update sent right after it; only the cancel
\* requests, whose answer is claimed to depend on when they were sent, are
\* followed through the queue.
Enqueue ==
    \E upd \in Updates :
        /\ pass.active
        /\ IsCancel(upd)
        /\ Len(queue) < MaxQueue
        /\ CanSend(upd)
        /\ queue' = Append(queue, [upd |-> upd, during |-> pass.user])
        /\ UNCHANGED <<scope, channels, sudo_users, scheduled_posts, user_data, conv, keyboards, pass, reply, notice>>

\* The next waiting update is handled once the running handler has returned.
Dequeue ==
    /\ ~pass.active
    /\ queue # <<>>
    /\ process_update(Head(queue).upd)
    /\ queue' = Tail(queue)
    /\ UNCHANGED scope

SendCall == send_call

SendStep == \E ok \in BOOLEAN : send_step(ok)

SendReport == send_report

Next == Arrive \/ Enqueue \/ Dequeue \/ SendCall \/ SendStep \/ SendReport

Spec == Init /\ [][Next]_vars

\* Fairness: a running send loop takes its next iteration and, after the last,
\* sends the report (the handler is a coroutine the event loop keeps running).
FairSpec ==
    /\ InitIn(PassScopes) /\ [][Next]_vars
    /\ WF_vars(SendCall) /\ WF_vars(SendStep) /\ WF_vars(SendReport)

\* ------------------------------------------------------------------ claims

\* The session of the user whose dispatch pass is running.
Session == user_data[pass.user]

\* The log entries of the pass that are Bot API calls.
Deliveries == {k \in 1..Len(pass.log) : pass.log[k].call # "none"}

\* The channels of the log entries that did not succeed, in order.
FailedInLog ==
    LET F[k \in 0..Len(pass.log)] ==
            IF k = 0 THEN <<>>
            ELSE IF pass.log[k].ok THEN F[k - 1]
            ELSE Append(F[k - 1], pass.log[k].channel)
    IN  F[Len(pass.log)]

\* C1: in a dispatch pass the k-th send is the k-th post of the session to the
\* k-th channel of the session's channel snapshot.
C1_PairingOrder ==
    pass.active =>
        \A k \in 1..Len(pass.log) :
            /\ k <= Len(Session.channels) /\ k <= Len(Session.posts_received)
            /\ pass.log[k].channel = Session.channels[k]
            /\ pass.log[k].post = Session.posts_received[k]

C1_Witness ==
    /\ pass.active
    /\ Len(pass.log) = 2
    /\ pass.log[1].channel # pass.log[2].channel
    /\ pass.log[1].post # pass.log[2].post

\* C2: a stored session never holds more posts than its required count.
C2_PostsWithinRequired ==
    \A u \in Users :
        user_data[u].has => Len(user_data[u].posts_received) <= user_data[u].channel_count

\* C3: in every posting report, the success count plus the number of failed
\* channels is the reported total.
C3_ReportAddsUp ==
    reply.text = "report" => reply.sent + Len(reply.failed) = reply.total

\* C4: a failed delivery is recorded and the loop goes on: when the report is
\* due every pairing has been attempted, in order, and the failed list holds
\* exactly the channels whose attempt failed.
C4_FailureIsolation ==
    pass.active =>
        LET pairs == Pairings(Session.channels, Session.posts_received)
        IN  /\ Len(pass.log) = pass.i
            /\ pass.i <= Len(pairs)
            /\ pass.i < Len(pairs) => (ENABLED SendCall \/ ENABLED SendStep)
            /\ \A k \in 1..Len(pass.log) : pass.log[k].channel = pairs[k].channel
            /\ pass.failed_channels = FailedInLog
            /\ pass.success_count + Len(pass.failed_channels) = pass.i
            /\ ENABLED SendReport => Len(pass.log) = Len(pairs)

C4_Witness ==
    /\ pass.active
    /\ Len(pass.log) = 2
    /\ ~pass.log[1].ok
    /\ pass.log[2].ok
    /\ pass.failed_channels = <<pass.log[1].channel>>

\* C5: Bot API calls are made only for a session that has reached
\* READY_TO_SEND, that is, one that holds all its required posts: a send-now
\* that comes while the session is still collecting delivers nothing.
C5_DeliveryOnlyWhenReady ==
    (pass.active /\ Deliveries # {}) =>
        Len(Session.posts_received) >= Session.channel_count

\* C6: once the bot has answered a cancel request of a user who had a session,
\* no post of that session is delivered.
C6_NoDeliveryAfterCancel ==
    (pass.active /\ notice[pass.user] = "cancelled") => Deliveries = {}

\* C7: a cancel request sent while the sender's own dispatch pass was running
\* is answered with a rejection.
C7_CancelDuringSendRejected ==
    [][(/\ ~pass.active
        /\ queue # <<>>
        /\ queue' = Tail(queue)
        /\ Head(queue).during = Head(queue).upd.user)
       => reply' = Say(Head(queue).upd.user, "rejected")]_vars

\* C8: a dispatch pass that has begun ends with its report, whatever the
\* outcome of each delivery.
C8_PassCompletes ==
    \A u \in Users :
        (pass.active /\ pass.user = u)
            ~> (~pass.active /\ reply.to = u /\ reply.text = "report"
                /\ notice[u] = "completed")

C8_Witness ==
    /\ pass.active
    /\ ENABLED SendReport
    /\ Len(pass.failed_channels) = 2

\* C9: a post submitted to a session that already holds the required number
\* of posts is answered with the overflow outcome and is not stored.
C9_OverflowLeavesPosts ==
    [][\A u \in Users, c \in Chats, m \in MessageShapes :
          (/\ conv[<<c, u>>] = WAITING_FOR_POSTS
           /\ user_data[u].has
           /\ Len(user_data[u].posts_received) >= user_data[u].channel_count
           /\ receive_posts(u, c, m)
           /\ UNCHANGED queue)
          => (/\ reply'.text = "overflow"
              /\ user_data'[u].posts_received = user_data[u].posts_received)]_vars

\* The phase of the session of a user, read from the stored session, the
\* running pass and the notice the bot gave.
PhaseOf(data, running, told) ==
    IF running THEN "SENDING"
    ELSE IF told = "cancelled" THEN "CANCELLED"
    ELSE IF told = "completed" THEN "COMPLETED"
    ELSE IF told = "scheduled" THEN "SCHEDULED"
    ELSE IF ~data.has THEN "NONE"
    ELSE IF Len(data.posts_received) < data.channel_count THEN "COLLECTING"
    ELSE IF Len(data.posts_received) = data.channel_count THEN "READY_TO_SEND"
    ELSE "OVERFULL"

Phase(u) == PhaseOf(user_data[u], pass.active /\ pass.user = u, notice[u])

\* The phase changes of one session: forward, or to a terminal phase.
Forward ==
    { <<"NONE", "COLLECTING">>, <<"COLLECTING", "READY_TO_SEND">>,
      <<"READY_TO_SEND", "SENDING">>, <<"SENDING", "COMPLETED">>,
      <<"COLLECTING", "CANCELLED">>, <<"READY_TO_SEND", "CANCELLED">>,
      <<"READY_TO_SEND", "SCHEDULED">> }

\* C10: the phase of a session only moves forward; /post starting a new
\* session is the only other change.
C10_PhaseMonotonic ==
    [][\A u \in Users :
          \/ Phase(u)' = Phase(u)
          \/ <<Phase(u), Phase(u)'>> \in Forward
          \/ (reply' = Say(u, "posting_setup") /\ Phase(u)' = "COLLECTING")]_vars

\* C11: once the bot has told a user that the session is over (the posting
\* report, or the answer to /cancel or to the Cancel button), nothing of the
\* session is left in the user's user_data.
C11_EndedSessionCleared ==
    \A u \in Users : notice[u] \in {"completed", "cancelled"} => user_data[u] = EmptyData

\* C12: no session is started for a user who has a session that is
\* COLLECTING or READY_TO_SEND, whichever chat the /post command comes from.
C12_OneSessionPerUser ==
    [][\A u \in Users, c \in Chats :
          (/\ conv[<<c, u>>] = END
           /\ conv'[<<c, u>>] = WAITING_FOR_POSTS
           /\ reply' = Say(u, "posting_setup"))
          => Phase(u) \notin {"COLLECTING", "READY_TO_SEND"}]_vars

\* C13: a step taken for user p (an update of p being handled, or p's dispatch
\* pass advancing or reporting) leaves the session of every other user q as it
\* was: its channel snapshot, its posts, its required count and its phase.
C13_SessionsIndependent ==
    [][\A q \in Users :
          (user_data'[q] # user_data[q] \/ Phase(q)' # Phase(q))
          => (/\ ~\E upd \in Updates : upd.user # q /\ process_update(upd)
              /\ ~(pass.active /\ pass.user # q /\ (SendStep \/ SendReport)))]_vars

C13_Witness ==
    /\ pass.active
    /\ pass.i = 1
    /\ \E q \in Users :
          /\ q # pass.user
          /\ user_data[q].has
          /\ Len(user_data[q].posts_received) = 1

\* C14: a post is stored, a dispatch pass is begun and posts are scheduled
\* only for a user who is the owner or a sudo user when the request is handled.
C14_OnlyAuthorizedOperate ==
    [][\A u \in Users :
          (\/ Len(user_data'[u].posts_received) > Len(user_data[u].posts_received)
           \/ (~pass.active /\ pass'.active /\ pass'.user = u)
           \/ (Len(scheduled_posts') > Len(scheduled_posts) /\ reply'.to = u))
          => IsAuthorized(u)]_vars

\* C15: /add of a channel id that is in db.channels never reports success and
\* leaves db.channels as it was (every document, with its registrant, and their
\* order by added_date); when the request passes the authorization check and the
\* admin-rights check, the answer is "already added".
C15_DuplicateRejected ==
    [][\A id \in scope.ids, u \in scope.users :
          (/\ pass' = pass /\ user_data' = user_data /\ keyboards' = keyboards
           /\ conv' = conv
           /\ reply'.to = u
           /\ get_channel_by_id(id)
           /\ \E c \in scope.chats, member \in {"administrator", "member", "error"},
                 insert \in {"stored", "error", "raced"},
                 w \in {v \in scope.users : IsAuthorized(v)} :
                  add_channel(u, c, id, member, insert, w))
          => (/\ channels' = channels
              /\ reply'.text # "channel_added"
              /\ (IsAuthorized(u) /\ reply'.text \notin {"add_failed", "not_admin"})
                     => reply' = Say(u, "already_added"))]_vars

C15_Witness ==
    /\ reply.text = "already_added"
    /\ \E k \in 1..Len(channels) : channels[k].added_by # reply.to

\* C16: a press of the remove button of a channel id that is not in
\* db.channels leaves db.channels as it was, and an authorized presser is told
\* that the channel was not found.
C16_RemoveMissing ==
    [][\A u \in scope.users, c \in scope.chats, data \in DOMAIN RemoveTarget,
         kb \in DOMAIN ListIds :
          (/\ ~get_channel_by_id(RemoveTarget[data])
           /\ reply'.to = u
           /\ kb \in keyboards[c]
           /\ \E deleted \in BOOLEAN : handle_channel_removal(u, c, data, kb, deleted))
          => (/\ channels' = channels
              /\ IsAuthorized(u) => reply' = Say(u, "not_found"))]_vars

C16_Witness ==
    /\ reply.text = "not_found"
    /\ channels # <<>>
    /\ \E c \in Chats : keyboards[c] \cap DOMAIN ListIds # {}

\* C17: when a registration of a channel id races with another registration
\* of the same id, one document of the id exists afterwards, it is the first
\* writer's, and the second writer is not told that the channel was added.
C17_RaceRejected ==
    [][\A id \in scope.ids, u \in scope.users, c \in scope.chats, w \in scope.users :
          (/\ ~get_channel_by_id(id)
           /\ IsAuthorized(u) /\ IsAuthorized(w) /\ w # u
           /\ add_channel(u, c, id, "administrator", "raced", w))
          => (/\ Cardinality({k \in 1..Len(channels') : channels'[k].channel_id = id}) = 1
              /\ \E k \in 1..Len(channels') : channels'[k] = Channel(id, w)
              /\ reply'.text # "channel_added")]_vars

\* C18: db.sudo_users never holds a record of the configured owner.
C18_OwnerNotSudo == OWNER_ID \notin sudo_users

\* C19: db.sudo_users changes only when an /addsudo or /removesudo of the
\* owner is handled; the same commands of any other user, a sudo user
\* included, are answered "owner only" and leave it as it was.
C19_OnlyOwnerChangesSudo ==
    [][/\ sudo_users' # sudo_users =>
            /\ reply'.to = OWNER_ID
            /\ \E target \in Users, c \in Chats :
                  add_sudo(OWNER_ID, c, target) \/ remove_sudo(OWNER_ID, c, target)
       /\ \A u \in Users \ {OWNER_ID}, c \in Chats, target \in Users :
             (reply'.to = u /\ (add_sudo(u, c, target) \/ remove_sudo(u, c, target)))
             => (sudo_users' = sudo_users /\ reply' = Say(u, "owner_only"))]_vars

C19_Witness ==
    /\ reply = Say("u1", "owner_only")
    /\ "u1" \in sudo_users

\* C20: scheduling a ready session begins no dispatch pass; it appends to
\* db.scheduled_posts one unsent record per pairing, in pairing order, with a
\* scheduled time in the future, and clears the session.  Afterwards no pass
\* runs for the user until a new /post, and no record is ever marked sent.
C20_ScheduleNeverDelivers ==
    /\ [](\A k \in 1..Len(scheduled_posts) : ~scheduled_posts[k].sent)
    /\ [](\A u \in Users : notice[u] = "scheduled" => ~(pass.active /\ pass.user = u))
    /\ [][\A u \in scope.users, c \in scope.chats :
            (/\ user_data[u].has
             /\ Len(user_data[u].posts_received) = user_data[u].channel_count
             /\ "sched" \in keyboards[c]
             /\ Len(scheduled_posts') > Len(scheduled_posts)
             /\ handle_scheduled_time(u, c, "sched"))
            => (/\ pass' = pass /\ ~pass'.active
                /\ user_data'[u] = EmptyData
                /\ Len(scheduled_posts') = Len(scheduled_posts) + user_data[u].channel_count
                /\ \A k \in 1..user_data[u].channel_count :
                      LET record == scheduled_posts'[Len(scheduled_posts) + k]
                      IN  /\ record.channel_id = user_data[u].channels[k].channel_id
                          /\ record.post_data = user_data[u].posts_received[k]
                          /\ ~record.sent
                          /\ record.hours > 0)]_vars

C20_Witness ==
    /\ Len(scheduled_posts) = 2
    /\ scheduled_posts[1].channel_id # scheduled_posts[2].channel_id
    /\ scheduled_posts[1].post_data # scheduled_posts[2].post_data
    /\ notice["owner"] = "scheduled"

\* C21: /post with no channel registered is answered "no channels" and stores
\* no session; every stored session has a required count of at least 1, equal
\* to the number of channels of its snapshot.
C21_NoChannelsNoSession ==
    /\ [](\A u \in Users :
            user_data[u].has =>
                /\ user_data[u].channel_count >= 1
                /\ user_data[u].channel_count = Len(user_data[u].channels))
    /\ [][\A u \in scope.users, c \in scope.chats :
            (/\ channels = <<>>
             /\ conv[<<c, u>>] = END
             /\ reply'.to = u
             /\ post_command(u, c))
            => (/\ user_data' = user_data
                /\ conv'[<<c, u>>] = END
                /\ IsAuthorized(u) => reply' = Say(u, "no_channels"))]_vars

C21_Witness ==
    /\ reply = Say("owner", "no_channels")
    /\ channels = <<>>
    /\ \A c \in Chats : conv[<<c, "owner">>] = END

\* C22: what a dispatch pass transmits with a photo, a video or a document is
\* the first min(length, 1024) units of the post's text, and what it transmits
\* as a message is the first min(length, 4096) units; never more than that.
C22_Truncation ==
    \A k \in 1..Len(pass.log) :
        LET entry == pass.log[k]
        IN  /\ entry.call \in {"send_photo", "send_video", "send_document"} =>
                  /\ entry.text <= 1024
                  /\ entry.text = Min(entry.post.text, 1024)
            /\ entry.call = "send_message" =>
                  /\ entry.text <= 4096
                  /\ entry.text = Min(entry.post.text, 4096)

C22_Witness ==
    /\ Len(pass.log) = 2
    /\ pass.log[1].call = "send_photo"
    /\ pass.log[1].post.text = 2000 /\ pass.log[1].text = 1024
    /\ pass.log[2].call = "send_message"
    /\ pass.log[2].post.text = 5000 /\ pass.log[2].text = 4096

\* C23: a step that changes db.channels (a registration or a removal) leaves
\* every stored session as it was, and the required count of a stored session
\* is the number of channels of its snapshot.
C23_SnapshotFixed ==
    /\ [](\A u \in Users :
            user_data[u].has => user_data[u].channel_count = Len(user_data[u].channels))
    /\ [][channels' # channels => user_data' = user_data]_vars

C23_Witness ==
    \E u \in Users :
        /\ Phase(u) \in {"COLLECTING", "READY_TO_SEND"}
        /\ Len(user_data[u].channels) = 2
        /\ Len(channels) = 1
        /\ reply.text = "removed"

\* C24: a message accepted while the session holds fewer posts than required
\* adds exactly that post at the end of posts_received; the answer is "need
\* more", with required minus received remaining, while the list is still
\* short, and "ready" (with the choice keyboard) exactly when the list has the
\* required length.
C24_SubmitOutcome ==
    [][\A u \in scope.users, c \in scope.chats, m \in scope.shapes :
          (/\ conv[<<c, u>>] = WAITING_FOR_POSTS
           /\ user_data[u].has
           /\ Len(user_data[u].posts_received) < user_data[u].channel_count
           /\ reply'.to = u
           /\ receive_posts(u, c, m))
          => LET before == user_data[u].posts_received
                 after == user_data'[u].posts_received
                 required == user_data[u].channel_count
             IN  /\ after = before \o <<MakePost(m)>>
                 /\ user_data'[u].channels = user_data[u].channels
                 /\ user_data'[u].channel_count = required
                 /\ reply'.text \in {"need_more", "ready"}
                 /\ reply'.text = "ready" <=> Len(after) = required
                 /\ reply'.text = "ready" <=> conv'[<<c, u>>] = WAITING_FOR_SCHEDULE
                 /\ reply'.text = "need_more" =>
                        /\ reply'.total - reply'.sent = required - Len(after)
                        /\ reply'.total - reply'.sent > 0
                        /\ conv'[<<c, u>>] = WAITING_FOR_POSTS]_vars

C24_Witness ==
    /\ reply.text = "need_more"
    /\ reply.total - reply.sent = 1
    /\ \E u \in Users :
          /\ Len(user_data[u].posts_received) = 1
          /\ user_data[u].channel_count = 2

\* C25: every post stored in a session has one of the kinds text, photo,
\* video and document, and it has no file_id exactly when its kind is text.
C25_PostKinds ==
    \A u \in Users :
        \A k \in 1..Len(user_data[u].posts_received) :
            LET post == user_data[u].posts_received[k]
            IN  /\ post.media_type \in {"text", "photo", "video", "document"}
                /\ ~post.file_id <=> post.media_type = "text"

\* The Bot API call that matches the kind of a post.
CallOfKind(kind) ==
    CASE kind = "text" -> "send_message"
      [] kind = "photo" -> "send_photo"
      [] kind = "video" -> "send_video"
      [] kind = "document" -> "send_document"
      [] OTHER -> "no_kind"

\* C26: in a dispatch pass every pairing gets one delivery call, the one that
\* matches the kind of its post; no pairing is passed over without a call.
C26_OneCallPerPairing ==
    pass.active =>
        /\ Len(pass.log) = pass.i
        /\ \A k \in 1..Len(pass.log) :
              /\ pass.log[k].call # "none"
              /\ pass.log[k].call = CallOfKind(pass.log[k].post.media_type)

\* C27: in a dispatch pass at most one Bot API call is in flight, and it is the
\* call of the pairing that follows those whose call has returned: the call of
\* pairing i+1 is not started before the call of pairing i has returned.
C27_SequentialDeliveries ==
    pass.active =>
        /\ Cardinality(pass.in_flight) <= 1
        /\ pass.in_flight \subseteq {pass.i + 1}
        /\ Len(pass.log) = pass.i
        /\ \A k \in 1..Len(pass.log) :
              pass.log[k].channel = pass.channels[k] /\ pass.log[k].post = pass.posts[k]

C27_Witness ==
    /\ pass.active
    /\ pass.i = 1
    /\ pass.in_flight = {2}
    /\ pass.log[1].call # "none"

\* C28: an /add is answered "channel added" only if a document of the channel
\* id is in db.channels afterwards.
C28_SuccessMeansStored ==
    [][\A id \in scope.ids, u \in scope.users, c \in scope.chats :
          (/\ reply' = Say(u, "channel_added")
           /\ user_data' = user_data /\ keyboards' = keyboards /\ conv' = conv
           /\ \E insert \in {"stored", "error", "raced"}, w \in scope.users :
                  add_channel(u, c, id, "administrator", insert, w))
          => \E k \in 1..Len(channels') : channels'[k].channel_id = id]_vars

\* C29: a dispatch pass begins only for a user who has a stored session, it
\* works on that session, which stays as it is while the pass runs, it makes
\* the iteration of each pairing once, and when it ends the session is gone:
\* no pairing of a session is delivered twice, whatever send_now presses
\* follow, and a send_now of a user without a session begins no pass.
C29_DispatchedOnce ==
    /\ [](pass.active =>
            /\ Session.has
            /\ Session.channels = pass.channels
            /\ Session.posts_received = pass.posts
            /\ Len(pass.log) = pass.i
            /\ pass.i <= Len(Pairings(pass.channels, pass.posts)))
    /\ [][(~pass.active /\ pass'.active) => user_data[pass'.user].has]_vars
    /\ [][(pass.active /\ ~pass'.active) => user_data'[pass.user] = EmptyData]_vars

C29_Witness ==
    /\ ~pass.active
    /\ reply = Say("owner", "error")
    /\ notice["owner"] = "completed"

\* C30: when a session ends by the report of its dispatch pass, by scheduling
\* or by the Cancel button, the conversation of the user in that chat is over,
\* so that the next /post there is taken as the start of a new session.
C30_PostAfterEnd ==
    [][\A u \in scope.users, c \in scope.chats :
          (/\ conv[<<c, u>>] = WAITING_FOR_SCHEDULE
           /\ \/ (pass.active /\ pass.user = u /\ pass.chat = c /\ send_report)
              \/ (/\ user_data[u].has
                  /\ reply'.to = u
                  /\ \E kb \in {"choice", "sched"} :
                        /\ kb \in keyboards[c]
                        /\ cancel_post(u, c, kb) \/ handle_scheduled_time(u, c, kb)))
          => conv'[<<c, u>>] = END]_vars

====
